---------------------------- MODULE Spec2Model ----------------------------
(***************************************************************************)
(* The two challenge notebooks (challenge_chsh.ipynb and                   *)
(* challenge_circuit_depth.ipynb) as state machines: one action per code   *)
(* cell, the circuits the cells build as sequences of instructions, and    *)
(* the simulation the Sampler / Estimator / AerSimulator calls perform as  *)
(* operators over state vectors.                                           *)
(*                                                                         *)
(* Numbers.  Every gate of the notebooks has real matrix entries.  A state *)
(* vector is kept UNNORMALISED with integer amplitudes: a function from    *)
(* the basis indices of its support to non-zero integers.  H is applied as *)
(* [[1,1],[1,-1]] (the factor 1/sqrt 2 dropped), Ry(theta) as              *)
(* [[c,-s],[s,c]] where <<c,s>> is an integer vector in the direction      *)
(* (cos(theta/2), sin(theta/2)).  A probability is the ratio of a sum of   *)
(* squared amplitudes to Norm2 of the whole vector, an expectation value   *)
(* the ratio <psi|O|psi> / <psi|psi>; both are compared by                 *)
(* cross-multiplication.                                                   *)
(*                                                                         *)
(* Bit order is Qiskit's (little-endian): qubit q is bit q of the basis    *)
(* index, classical bit c is bit c of the outcome.                         *)
(*                                                                         *)
(* Execution.  The cells run top to bottom on one kernel namespace, ns.    *)
(* Any subset of the answers may be blank; a cell that reads an unbound    *)
(* name stops the execution with a NameError, which filling in the answer  *)
(* lifts.  SpecGates, SpecMixed, SpecGhz, SpecPauli and SpecLHV are the    *)
(* families of circuits, operators and trials the text of the notebooks    *)
(* speaks of.                                                              *)
(***************************************************************************)
EXTENDS Integers, Sequences, FiniteSets, TLC

\* ------------------------------------------------------------------ bounds
\* Largest |c|, |s| of the integer direction <<c,s>> that stands for an angle.
MaxAmp == 3

\* Shots of one AerSimulator job (the library's default is 1024).
MaxShots == 2
\* Qubits and gates of the circuits of single-qubit gates built in SpecGates.
MaxQubits == 3
MaxGates == 4
\* Trials of the local-hidden-variable experiment of SpecLHV.
MaxTrials == 4
\* Gates of the circuits of one- and two-qubit gates built in SpecMixed.
MaxMixedGates == 3
\* Largest amplitude of the states the Pauli operators of SpecPauli act on.
MaxTestAmp == 1
\* The number of qubits the reduced-depth GHZ circuit is demonstrated on.
NumGhzQubits == 16

\* ----------------------------------------------------------- integer tools
Abs(x) == IF x < 0 THEN -x ELSE x

RECURSIVE Pow2(_)
Pow2(n) == IF n = 0 THEN 1 ELSE 2 * Pow2(n - 1)

RECURSIVE Gcd(_, _)
Gcd(a, b) == IF b = 0 THEN a ELSE Gcd(b, a % b)

\* Sum of the values of a function with a finite domain.
RECURSIVE SumFun(_)
SumFun(f) ==
    IF DOMAIN f = {} THEN 0
    ELSE LET k == CHOOSE j \in DOMAIN f : TRUE
         IN  f[k] + SumFun([j \in DOMAIN f \ {k} |-> f[j]])

Bit(k, q) == (k \div Pow2(q)) % 2
Flip(k, q) == IF Bit(k, q) = 0 THEN k + Pow2(q) ELSE k - Pow2(q)
SetBit(k, q, m) == IF Bit(k, q) = m THEN k ELSE Flip(k, q)

\* ------------------------------------------------------------ state vectors
\* |0...0>: every qubit of a new circuit starts in |0>.
ZeroState == (0 :> 1)

Amp(psi, k) == IF k \in DOMAIN psi THEN psi[k] ELSE 0
Clean(f) == [k \in {j \in DOMAIN f : f[j] # 0} |-> f[k]]
Norm2(psi) == SumFun([k \in DOMAIN psi |-> psi[k] * psi[k]])

\* Mutant of ApplyX: the gate lands on the next qubit.
ApplyXNextQubit(psi, q) ==
    [k \in {Flip(j, q + 1) : j \in DOMAIN psi} |-> psi[Flip(k, q + 1)]]

ApplyX(psi, q) ==
    [k \in {Flip(j, q) : j \in DOMAIN psi} |-> psi[Flip(k, q)]]

\* Mutant of ApplyZ: the sign lands on the |0> component.
ApplyZOnZero(psi, q) ==
    [k \in DOMAIN psi |-> IF Bit(k, q) = 0 THEN -psi[k] ELSE psi[k]]

ApplyZ(psi, q) ==
    [k \in DOMAIN psi |-> IF Bit(k, q) = 1 THEN -psi[k] ELSE psi[k]]

ApplyH(psi, q) ==
    LET cand == DOMAIN psi \cup {Flip(j, q) : j \in DOMAIN psi}
    IN  Clean([k \in cand |->
                 IF Bit(k, q) = 0
                 THEN Amp(psi, k) + Amp(psi, Flip(k, q))
                 ELSE Amp(psi, Flip(k, q)) - Amp(psi, k)])

\* Mutant of ApplyCX: control and target exchanged.
ApplyCXSwapped(psi, c, t) ==
    LET to(j) == IF Bit(j, t) = 1 THEN Flip(j, c) ELSE j
    IN  [k \in {to(j) : j \in DOMAIN psi} |-> psi[to(k)]]

\* CNOT with control c and target t, the argument order of cx(c, t).
ApplyCX(psi, c, t) ==
    LET to(j) == IF Bit(j, c) = 1 THEN Flip(j, t) ELSE j
    IN  [k \in {to(j) : j \in DOMAIN psi} |-> psi[to(k)]]

\* Ry(theta) with cos(theta/2) : sin(theta/2) = ang[1] : ang[2].
ApplyRy(psi, ang, q) ==
    LET c == ang[1]
        s == ang[2]
        cand == DOMAIN psi \cup {Flip(j, q) : j \in DOMAIN psi}
    IN  Clean([k \in cand |->
                 IF Bit(k, q) = 0
                 THEN c * Amp(psi, k) - s * Amp(psi, Flip(k, q))
                 ELSE s * Amp(psi, Flip(k, q)) + c * Amp(psi, k)])

\* The part of psi in which qubit q reads m (unnormalised projection).
Project(psi, q, m) == [k \in {j \in DOMAIN psi : Bit(j, q) = m} |-> psi[k]]


\* ----------------------------------------------------------------- circuits
\* A circuit is [nq, ncl, ops]: its numbers of qubits and classical bits and
\* its instructions in program order.  An instruction is
\* [op, qs, cl, cond, ang]: qs its qubits in argument order, cl the classical
\* bit a measure writes (NoCl otherwise), cond the <<clbit, value>> of a c_if
\* (<<>> otherwise), ang the direction <<c,s>> of a numeric rotation angle
\* (<<>> for the Parameter theta, bound when the circuit is run).
NoCl == -1
Instr(op, qs) == [op |-> op, qs |-> qs, cl |-> NoCl, cond |-> <<>>, ang |-> <<>>]

QuantumCircuit(nq, ncl) == [nq |-> nq, ncl |-> ncl, ops |-> <<>>]

Gate(circ, op, qs) == [circ EXCEPT !.ops = Append(@, Instr(op, qs))]

\* gate(...).c_if(clbit, val)
GateIf(circ, op, qs, clbit, val) ==
    [circ EXCEPT !.ops = Append(@, [Instr(op, qs) EXCEPT !.cond = <<clbit, val>>])]

\* ry(angle, q) with a numeric angle.
GateRy(circ, ang, q) ==
    [circ EXCEPT !.ops = Append(@, [Instr("ry", <<q>>) EXCEPT !.ang = ang])]

AllQubits(circ) == [i \in 1..circ.nq |-> i - 1]

Barrier(circ) == Gate(circ, "barrier", AllQubits(circ))

\* measure(qs, cs): one measure instruction per (qubit, clbit) pair.
RECURSIVE Measure(_, _, _)
Measure(circ, qs, cs) ==
    IF qs = <<>> THEN circ
    ELSE Measure([circ EXCEPT !.ops =
                     Append(@, [Instr("measure", <<Head(qs)>>) EXCEPT !.cl = Head(cs)])],
                 Tail(qs), Tail(cs))

\* Mutant of MeasureAll: the register and the barrier, but no measurement.
MeasureAllBarrierOnly(circ) == Barrier([circ EXCEPT !.ncl = @ + circ.nq])

\* measure_all(): a new classical register of nq bits, a barrier, and every
\* qubit measured into the new register.
MeasureAll(circ) ==
    LET wide == [circ EXCEPT !.ncl = @ + circ.nq]
    IN  Measure(Barrier(wide), AllQubits(circ),
                [i \in 1..circ.nq |-> circ.ncl + i - 1])

AddRegister(circ, nq, ncl) == [circ EXCEPT !.nq = @ + nq, !.ncl = @ + ncl]

IsFinalOp(ins) == ins.op \in {"measure", "barrier"}

RECURSIVE StripFinal(_)
StripFinal(ops) ==
    IF ops # <<>> /\ IsFinalOp(ops[Len(ops)])
    THEN StripFinal(SubSeq(ops, 1, Len(ops) - 1))
    ELSE ops

UsedClbits(ops) ==
    {ops[i].cl : i \in {j \in DOMAIN ops : ops[j].cl # NoCl}}
    \cup {ops[i].cond[1] : i \in {j \in DOMAIN ops : ops[j].cond # <<>>}}

\* remove_final_measurements(): the trailing measurements and barriers go,
\* and with them the classical bits that are left idle.
RemoveFinalMeasurements(circ) ==
    LET kept == StripFinal(circ.ops)
    IN  [circ EXCEPT !.ops = kept,
                     !.ncl = IF UsedClbits(kept) = {} THEN 0 ELSE @]

HasMeasure(circ) == \E i \in DOMAIN circ.ops : circ.ops[i].op = "measure"

\* size(): the instructions that are not directives.
Size(circ) == Cardinality({i \in DOMAIN circ.ops : circ.ops[i].op # "barrier"})

NumNonlocalGates(circ) ==
    Cardinality({i \in DOMAIN circ.ops :
                    circ.ops[i].op # "barrier" /\ Len(circ.ops[i].qs) > 1})

\* -------------------------------------------------------------------- depth
\* depth(): every instruction but a barrier is placed one level above the
\* highest level reached so far on any of its qubits and classical bits.
SetMax(S) == IF S = {} THEN 0 ELSE CHOOSE m \in S : \A x \in S : x <= m

\* Mutant of InstrBits: only the first qubit of an instruction is counted.
InstrBitsFirst(circ, ins) == {ins.qs[1]}

InstrBits(circ, ins) ==
    {ins.qs[i] : i \in DOMAIN ins.qs}
    \cup (IF ins.cl = NoCl THEN {} ELSE {circ.nq + ins.cl})
    \cup (IF ins.cond = <<>> THEN {} ELSE {circ.nq + ins.cond[1]})

RECURSIVE Levels(_, _, _)
Levels(circ, i, lev) ==
    IF i > Len(circ.ops) THEN lev
    ELSE LET ins == circ.ops[i]
             bits == InstrBits(circ, ins)
             top == 1 + SetMax({lev[b] : b \in bits})
         IN  IF ins.op = "barrier"
             THEN Levels(circ, i + 1, lev)
             ELSE Levels(circ, i + 1,
                         [b \in DOMAIN lev |-> IF b \in bits THEN top ELSE lev[b]])

\* Mutant of Depth: the levels of qubit 0 alone.
DepthOfQubit0(circ) ==
    Levels(circ, 1, [b \in 0..(circ.nq + circ.ncl - 1) |-> 0])[0]

Depth(circ) ==
    LET lev == Levels(circ, 1, [b \in 0..(circ.nq + circ.ncl - 1) |-> 0])
    IN  SetMax({lev[b] : b \in DOMAIN lev})

\* --------------------------------------------------------------- simulation
\* A run is a sequence of branches [psi, cl], one per measurement history
\* with non-zero probability; the probability of a branch is Norm2 of its
\* psi over the sum of Norm2 over all branches.
ApplyGate(psi, ins, ang) ==
    CASE ins.op = "x"  -> ApplyX(psi, ins.qs[1])
      [] ins.op = "z"  -> ApplyZ(psi, ins.qs[1])
      [] ins.op = "h"  -> ApplyH(psi, ins.qs[1])
      [] ins.op = "cx" -> ApplyCX(psi, ins.qs[1], ins.qs[2])
      [] ins.op = "ry" -> ApplyRy(psi, IF ins.ang = <<>> THEN ang ELSE ins.ang,
                                  ins.qs[1])
      [] OTHER -> psi

CondHolds(b, ins) == ins.cond = <<>> \/ Bit(b.cl, ins.cond[1]) = ins.cond[2]

Split(b, ins) ==
    LET out(m) == [psi |-> Project(b.psi, ins.qs[1], m),
                   cl |-> SetBit(b.cl, ins.cl, m)]
        keep(m) == IF DOMAIN out(m).psi = {} THEN <<>> ELSE <<out(m)>>
    IN  keep(0) \o keep(1)

RECURSIVE StepAll(_, _, _)
StepAll(bs, ins, ang) ==
    IF bs = <<>> THEN <<>>
    ELSE LET b == Head(bs)
             now == IF ins.op = "measure" THEN Split(b, ins)
                    ELSE IF CondHolds(b, ins)
                         THEN <<[b EXCEPT !.psi = ApplyGate(b.psi, ins, ang)]>>
                         ELSE <<b>>
         IN  now \o StepAll(Tail(bs), ins, ang)

RECURSIVE RunOps(_, _, _, _)
RunOps(ops, i, bs, ang) ==
    IF i > Len(ops) THEN bs
    ELSE RunOps(ops, i + 1, StepAll(bs, ops[i], ang), ang)

\* The circuit run from |0...0> with the parameter theta bound to ang.
Run(circ, ang) == RunOps(circ.ops, 1, <<[psi |-> ZeroState, cl |-> 0]>>, ang)

\* The distribution over the classical bits: outcome |-> weight, the
\* probability of an outcome being its weight over the sum of all weights.
Dist(bs) ==
    [o \in {bs[i].cl : i \in DOMAIN bs} |->
        SumFun([i \in {j \in DOMAIN bs : bs[j].cl = o} |-> Norm2(bs[i].psi)])]

Total(d) == SumFun(d)

\* sampler.run(circuit): the exact quasi-distribution of the bound circuit.
SamplerRun(circ, ang) == Dist(Run(circ, ang))

\* ---------------------------------------------------------------- estimator
\* A Pauli label is read as Qiskit reads it: its LAST letter acts on qubit 0.
\* A SparsePauliOp is a sequence of terms [coeff, label].
PauliTerm(coeff, label) == [coeff |-> coeff, label |-> label]

ApplyLetter(psi, letter, q) ==
    CASE letter = "X" -> ApplyX(psi, q)
      [] letter = "Z" -> ApplyZ(psi, q)
      [] OTHER -> psi

\* Mutant of LabelQubit: the label read big-endian, first letter on qubit 0.
LabelQubitBigEndian(label, i) == i - 1

LabelQubit(label, i) == Len(label) - i

RECURSIVE ApplyLabel(_, _, _)
ApplyLabel(psi, label, i) ==
    IF i > Len(label) THEN psi
    ELSE ApplyLabel(ApplyLetter(psi, label[i], LabelQubit(label, i)), label, i + 1)

Inner(a, b) == SumFun([k \in DOMAIN a \cap DOMAIN b |-> a[k] * b[k]])

\* <psi| O |psi> / <psi|psi> as [num, den].
Expectation(psi, obs) ==
    [num |-> SumFun([t \in DOMAIN obs |->
                        obs[t].coeff * Inner(psi, ApplyLabel(psi, obs[t].label, 1))]),
     den |-> Norm2(psi)]

\* estimator.run(circuits, observables, parameter_values): the exact
\* expectation value of observable i in the final state of circuit i.
EstimatorRun(circs, obss, angs) ==
    [i \in DOMAIN circs |-> Expectation(Run(circs[i], angs[i])[1].psi, obss[i])]

\* Product of two Pauli labels that never meet in a letter other than I
\* (operators on different qubits), letter by letter.
LetterTimes(x, y) == IF x = "I" THEN y ELSE IF y = "I" THEN x ELSE "I"
LabelTimes(l1, l2) == [i \in DOMAIN l1 |-> LetterTimes(l1[i], l2[i])]

\* CHSH = AB - Ab + aB + ab for one-qubit Pauli labels A, a, B, b.
CHSHObservable(A, a, B, b) ==
    << PauliTerm(1, LabelTimes(A, B)), PauliTerm(-1, LabelTimes(A, b)),
       PauliTerm(1, LabelTimes(a, B)), PauliTerm(1, LabelTimes(a, b)) >>

\* Mutant of CHSHValue: a sign slip in the second bracket.
CHSHValueSignSlip(A, a, B, b) == A * (B - b) + a * (B - b)

\* The same quantity for classical outcomes A, a, B, b.
CHSHValue(A, a, B, b) == A * (B - b) + a * (B + b)

\* ------------------------------------------------------------------- angles
\* The directions <<c,s>> of half-angles in (-pi/2, pi/2] with entries of
\* size at most r, one per angle theta in (-pi, pi]: tan(theta/2) = s / c.
Angles(r) ==
    {a \in (0..r) \X ((0 - r)..r) :
        /\ Gcd(Abs(a[1]), Abs(a[2])) = 1
        /\ (a[1] = 0 => a[2] = 1)}

\* a comes before b in increasing theta.
AngleBefore(a, b) ==
    IF b[1] = 0 THEN a[1] # 0
    ELSE a[1] # 0 /\ a[2] * b[1] < b[2] * a[1]

RECURSIVE SortAngles(_)
SortAngles(S) ==
    IF S = {} THEN <<>>
    ELSE LET first == CHOOSE a \in S : \A b \in S \ {a} : AngleBefore(a, b)
         IN  <<first>> \o SortAngles(S \ {first})

\* A sweep of theta over (-pi, pi] at resolution r.
Sweep(r) == SortAngles(Angles(r))

\* marginal_counts(dist, indices): the weights summed over the classical
\* bits that are not listed; bit i of the new outcome is bit indices[i+1].
Restrict(o, indices) ==
    SumFun([i \in DOMAIN indices |-> Bit(o, indices[i]) * Pow2(i - 1)])

Marginal(d, indices) ==
    [m \in {Restrict(o, indices) : o \in DOMAIN d} |->
        SumFun([o \in {x \in DOMAIN d : Restrict(x, indices) = m} |-> d[o]])]

\* ------------------------------------------------------- the notebook state
\* nb   the notebook being executed, "chsh" or "depth"
\* pc   the next code cell, by name; the cells run top to bottom
\* ns   the kernel's namespace: the bound names and their values
\* out  the numbers the cells have printed, in order
VARIABLES nb, pc, ns, out, err, blank

\* name = value
Bind(env, name, val) ==
    [n \in DOMAIN env \cup {name} |-> IF n = name THEN val ELSE env[n]]

Unbound == <<>>

\* Mutant of Import: nothing imported.
ImportNothing(env, names, module) == env

\* from module import names
Import(env, names, module) ==
    [n \in DOMAIN env \cup names |-> IF n \in names THEN module ELSE env[n]]

\* err is the exception that stopped the execution, or NoError.
NoError == "none"

\* blank is the set of the answers not filled in: the names the notebooks
\* leave to an answer, and STEP 1 and STEP 4, whose answers bind no name.
Answers(notebook) ==
    IF notebook = "chsh" THEN {"step1", "obsv", "angles", "step4", "tele_counts"}
    ELSE {"ghz_new_qc"}

\* The cell that holds an answer.
AnswerCell(answer) ==
    CASE answer = "obsv" -> "step2"
      [] answer = "angles" -> "challenge3"
      [] answer = "tele_counts" -> "step5"
      [] answer = "ghz_new_qc" -> "part4"
      [] OTHER -> answer

\* The names a cell reads before it has bound them itself, in the order it
\* reads them (Python's builtins apart).
Reads(cell) ==
    CASE cell \in {"imports", "versions", "import_registers", "part2", "part3"} -> <<>>
      [] cell \in {"excited", "plus", "intro", "bell", "ghz", "depth1", "depth2",
                   "chsh_qc"} -> <<"QuantumCircuit">>
      [] cell = "sample_z" -> <<"qc_1", "qc_plus", "Sampler">>
      [] cell = "show_1" -> <<"job_1">>
      [] cell = "show_plus" -> <<"job_plus">>
      [] cell = "plot_z" -> <<"plot_histogram", "job_1", "job_plus">>
      [] cell = "step1" -> IF "step1" \in blank THEN <<"qc_1", "qc_plus">>
                           ELSE <<"qc_1", "qc_plus", "np">>
      [] cell = "sample_x" -> <<"Sampler", "qc_1", "qc_plus">>
      [] cell = "plot_x" -> <<"plot_histogram", "job_1", "job_plus", "legend">>
      [] cell = "est_build" -> <<"QuantumCircuit", "SparsePauliOp">>
      [] cell = "est_run" -> <<"Estimator", "qc2_1", "obsvs", "qc2_plus">>
      [] cell = "show_est" -> <<"job2_1">>
      [] cell = "print_est" -> <<"job2_1", "job2_plus">>
      [] cell = "step2" -> IF "obsv" \in blank THEN <<>> ELSE <<"SparsePauliOp">>
      [] cell = "challenge3" -> IF "angles" \in blank THEN <<"angles">> ELSE <<"np">>
      [] cell = "chsh_run" -> <<"Estimator", "qc", "angles", "obsv", "plt">>
      [] cell = "tele_qc" -> <<"Parameter", "QuantumRegister", "QuantumCircuit">>
      [] cell = "tele_registers" -> <<"qc", "QuantumRegister", "ClassicalRegister">>
      [] cell \in {"tele_bell", "tele_alice"} -> <<"tele_qc">>
      [] cell = "tele_measure" -> <<"tele_qc", "qr", "bell", "alice">>
      [] cell = "step4" -> IF "step4" \in blank THEN <<"tele_qc">>
                           ELSE <<"tele_qc", "alice">>
      [] cell = "bob_measure" -> <<"full_qc", "bell", "bob">>
      [] cell = "tele_run" -> <<"np", "qc", "theta", "full_qc">>
      [] cell = "step5" -> IF "tele_counts" \in blank THEN <<>> ELSE <<"job_dynamic">>
      [] cell = "tele_plot" -> <<"plot_histogram", "job_static", "tele_counts">>
      [] cell = "bell_run" -> <<"bell", "plot_histogram">>
      [] cell = "ghz_run" -> <<"AerSimulator", "ghz_qc", "plot_histogram">>
      [] cell = "part4" -> IF "ghz_new_qc" \in blank THEN <<>> ELSE <<"QuantumCircuit">>
      [] cell = "ghz_new_run" -> <<"AerSimulator", "ghz_new_qc", "plot_histogram">>

\* The first of the names that env does not bind, or NoError.
RECURSIVE FirstUnbound(_, _)
FirstUnbound(names, env) ==
    IF names = <<>> THEN NoError
    ELSE IF Head(names) \notin DOMAIN env THEN Head(names)
    ELSE FirstUnbound(Tail(names), env)

\* The cell is the next to execute, nothing has stopped the execution, and
\* every name the cell reads is bound.
Runs(notebook, cell) ==
    /\ nb = notebook /\ pc = cell /\ err = NoError
    /\ FirstUnbound(Reads(cell), ns) = NoError

\* ------------------------------------------- challenge_chsh.ipynb: warm up
IX == <<"I", "X">>
IZ == <<"I", "Z">>
XI == <<"X", "I">>
ZI == <<"Z", "I">>

ImportsCHSH ==
    /\ Runs("chsh", "imports")
    /\ ns' = Import(Import(Import(Import(Import(ns,
                {"QuantumCircuit"}, "qiskit.circuit"),
                {"Estimator", "Sampler"}, "qiskit.primitives"),
                {"SparsePauliOp"}, "qiskit.quantum_info"),
                {"plot_histogram"}, "qiskit.visualization"),
                {"np", "plt"}, "module")
    /\ pc' = "excited"
    /\ UNCHANGED <<nb, out, err, blank>>

CreateExcited ==
    /\ Runs("chsh", "excited")
    /\ ns' = Bind(ns, "qc_1", Gate(QuantumCircuit(1, 0), "x", <<0>>))
    /\ pc' = "plus"
    /\ UNCHANGED <<nb, out, err, blank>>

CreatePlus ==
    /\ Runs("chsh", "plus")
    /\ ns' = Bind(ns, "qc_plus", Gate(QuantumCircuit(1, 0), "h", <<0>>))
    /\ pc' = "sample_z"
    /\ UNCHANGED <<nb, out, err, blank>>

\* The two sampler jobs of a cell, run on the circuits as they now are.
SampleBoth(env) ==
    Bind(Bind(env, "job_1", SamplerRun(env["qc_1"], Unbound)),
         "job_plus", SamplerRun(env["qc_plus"], Unbound))

MeasureBoth(env) ==
    Bind(Bind(env, "qc_1", MeasureAll(env["qc_1"])),
         "qc_plus", MeasureAll(env["qc_plus"]))

\* sampler.run(circuit) raises an error unless the circuit has classical
\* bits and each of them is written by a measurement.
Sampleable(circ) ==
    /\ circ.ncl > 0
    /\ \A c \in 0..(circ.ncl - 1) :
          \E i \in DOMAIN circ.ops :
             circ.ops[i].op = "measure" /\ circ.ops[i].cl = c

\* sampler = Sampler() and the two jobs.  The first circuit the sampler
\* refuses stops the execution; otherwise the cell next is executed next.
SampleCell(env, next) ==
    LET made == Bind(env, "sampler", ns["Sampler"])
        first == Bind(made, "job_1", SamplerRun(env["qc_1"], Unbound))
    IN  IF ~Sampleable(env["qc_1"])
        THEN ns' = made /\ err' = "QiskitError" /\ pc' = pc
        ELSE IF ~Sampleable(env["qc_plus"])
        THEN ns' = first /\ err' = "QiskitError" /\ pc' = pc
        ELSE ns' = SampleBoth(made) /\ err' = NoError /\ pc' = next

SampleZ ==
    /\ Runs("chsh", "sample_z")
    /\ SampleCell(MeasureBoth(ns), "show_1")
    /\ UNCHANGED <<nb, out, blank>>

ShowExcited ==
    /\ Runs("chsh", "show_1")
    /\ pc' = "show_plus"
    /\ UNCHANGED <<nb, ns, out, err, blank>>

ShowPlus ==
    /\ Runs("chsh", "show_plus")
    /\ pc' = "plot_z"
    /\ UNCHANGED <<nb, ns, out, err, blank>>

PlotZ ==
    /\ Runs("chsh", "plot_z")
    /\ ns' = Bind(ns, "legend", <<"Excited State", "Plus State">>)
    /\ pc' = "step1"
    /\ UNCHANGED <<nb, out, err, blank>>

\* STEP 1's answer: a rotation that takes the X basis to the Z basis,
\* |+> to |0> and |-> to |1>: the Hadamard gate, or Ry(-pi/2).
XToZ == {"h", "ry"}

\* Mutant of Rotate: the answer left blank.
RotateNothing(circ, rot) == circ

Rotate(circ, rot) ==
    IF rot = "h" THEN Gate(circ, "h", <<0>>) ELSE GateRy(circ, <<1, -1>>, 0)

Step1 ==
    /\ Runs("chsh", "step1")
    /\ LET bare == Bind(Bind(ns, "qc_1", RemoveFinalMeasurements(ns["qc_1"])),
                        "qc_plus", RemoveFinalMeasurements(ns["qc_plus"]))
           Turned(rot) == Bind(Bind(bare, "qc_1", Rotate(bare["qc_1"], rot)),
                               "qc_plus", Rotate(bare["qc_plus"], rot))
       IN  IF "step1" \in blank THEN ns' = MeasureBoth(bare)
           ELSE \E rot \in XToZ : ns' = MeasureBoth(Turned(rot))
    /\ pc' = "sample_x"
    /\ UNCHANGED <<nb, out, err, blank>>

SampleX ==
    /\ Runs("chsh", "sample_x")
    /\ SampleCell(ns, "plot_x")
    /\ UNCHANGED <<nb, out, blank>>

PlotX ==
    /\ Runs("chsh", "plot_x")
    /\ pc' = "est_build"
    /\ UNCHANGED <<nb, ns, out, err, blank>>

EstimatorBuild ==
    /\ Runs("chsh", "est_build")
    /\ ns' = Bind(Bind(Bind(ns,
                "qc2_1", Gate(QuantumCircuit(1, 0), "x", <<0>>)),
                "qc2_plus", Gate(QuantumCircuit(1, 0), "h", <<0>>)),
                "obsvs", << <<PauliTerm(1, <<"Z">>)>>, <<PauliTerm(1, <<"X">>)>> >>)
    /\ pc' = "est_run"
    /\ UNCHANGED <<nb, out, err, blank>>

\* [circuit] * n
Times(x, n) == [i \in 1..n |-> x]

EstimatorWarmup ==
    /\ Runs("chsh", "est_run")
    /\ LET n == Len(ns["obsvs"])
       IN  ns' = Bind(Bind(Bind(ns, "estimator", ns["Estimator"]),
                "job2_1", EstimatorRun(Times(ns["qc2_1"], n), ns["obsvs"],
                                       Times(Unbound, n))),
                "job2_plus", EstimatorRun(Times(ns["qc2_plus"], n), ns["obsvs"],
                                          Times(Unbound, n)))
    /\ pc' = "show_est"
    /\ UNCHANGED <<nb, out, err, blank>>

ShowEstimate ==
    /\ Runs("chsh", "show_est")
    /\ pc' = "print_est"
    /\ UNCHANGED <<nb, ns, out, err, blank>>

PrintEstimates ==
    /\ Runs("chsh", "print_est")
    /\ pc' = "step2"
    /\ UNCHANGED <<nb, ns, out, err, blank>>

\* -------------------------------------- challenge_chsh.ipynb: CHSH witness
\* STEP 2's answer: A, a are the two of {IX, IZ} and B, b the two of
\* {XI, ZI}, in either order.
Step2 ==
    /\ Runs("chsh", "step2")
    /\ IF "obsv" \in blank THEN ns' = ns
       ELSE \E A \in {IX, IZ}, B \in {XI, ZI} :
               \E a \in {IX, IZ} \ {A}, b \in {XI, ZI} \ {B} :
                  ns' = Bind(ns, "obsv", CHSHObservable(A, a, B, b))
    /\ pc' = "chsh_qc"
    /\ UNCHANGED <<nb, out, err, blank>>

\* Mutant of CHSHCircuit: the CNOT forgotten, the qubits not entangled.
CHSHCircuitNoCX == Gate(Gate(QuantumCircuit(2, 0), "h", <<0>>), "ry", <<0>>)

CHSHCircuit ==
    Gate(Gate(Gate(QuantumCircuit(2, 0), "h", <<0>>), "cx", <<0, 1>>), "ry", <<0>>)

CreateCHSH ==
    /\ Runs("chsh", "chsh_qc")
    /\ ns' = Bind(Bind(Import(ns, {"Parameter"}, "qiskit.circuit"),
                       "theta", "Parameter"), "qc", CHSHCircuit)
    /\ pc' = "challenge3"
    /\ UNCHANGED <<nb, out, err, blank>>

\* CHALLENGE 3's answer: a sweep of the angle at some resolution.  The
\* cell ends in print(angles), which is all the cell does when the answer
\* is blank.
Challenge3 ==
    /\ Runs("chsh", "challenge3")
    /\ IF "angles" \in blank THEN ns' = ns
       ELSE \E r \in 1..MaxAmp : ns' = Bind(ns, "angles", Sweep(r))
    /\ pc' = "chsh_run"
    /\ UNCHANGED <<nb, out, err, blank>>

RunCHSH ==
    /\ Runs("chsh", "chsh_run")
    /\ LET n == Len(ns["angles"])
           values == EstimatorRun(Times(ns["qc"], n), Times(ns["obsv"], n),
                                  ns["angles"])
       IN  ns' = Bind(Bind(Bind(ns, "estimator", ns["Estimator"]),
                           "job", values), "exps", values)
    /\ pc' = "import_registers"
    /\ UNCHANGED <<nb, out, err, blank>>

ImportRegisters ==
    /\ Runs("chsh", "import_registers")
    /\ ns' = Import(ns, {"ClassicalRegister", "QuantumRegister"}, "qiskit.circuit")
    /\ pc' = "tele_qc"
    /\ UNCHANGED <<nb, out, err, blank>>

\* ------------------------------------- challenge_chsh.ipynb: teleportation
\* Qubits: 0 is q, 1 is Bell_0, 2 is Bell_1.  Classical bits: 0 and 1 are
\* Alice[0] and Alice[1], 2 is Bob[0].
TeleCreate ==
    /\ Runs("chsh", "tele_qc")
    /\ ns' = Bind(Bind(Bind(ns, "theta", "Parameter"), "qr", <<0>>),
                  "qc", Gate(QuantumCircuit(1, 0), "ry", <<0>>))
    /\ pc' = "tele_registers"
    /\ UNCHANGED <<nb, out, err, blank>>

TeleRegisters ==
    /\ Runs("chsh", "tele_registers")
    /\ ns' = Bind(Bind(Bind(Bind(ns, "bell", <<1, 2>>), "alice", <<0, 1>>),
                       "bob", <<2>>),
                  "tele_qc", AddRegister(ns["qc"], 2, 3))
    /\ pc' = "tele_bell"
    /\ UNCHANGED <<nb, out, err, blank>>

TeleBell ==
    /\ Runs("chsh", "tele_bell")
    /\ ns' = Bind(ns, "tele_qc",
                  Barrier(Gate(Gate(Barrier(ns["tele_qc"]), "h", <<1>>),
                               "cx", <<1, 2>>)))
    /\ pc' = "tele_alice"
    /\ UNCHANGED <<nb, out, err, blank>>

TeleAlice ==
    /\ Runs("chsh", "tele_alice")
    /\ ns' = Bind(ns, "tele_qc",
                  Barrier(Gate(Gate(ns["tele_qc"], "cx", <<0, 1>>), "h", <<0>>)))
    /\ pc' = "tele_measure"
    /\ UNCHANGED <<nb, out, err, blank>>

\* measure([qr[0], bell[0]], alice): q into Alice[0], Bell_0 into Alice[1].
TeleMeasure ==
    /\ Runs("chsh", "tele_measure")
    /\ ns' = Bind(ns, "tele_qc",
                  Measure(ns["tele_qc"], <<ns["qr"][1], ns["bell"][1]>>, ns["alice"]))
    /\ pc' = "step4"
    /\ UNCHANGED <<nb, out, err, blank>>

\* Mutant of BobCorrections: the two conditions exchanged.
BobCorrectionsSwapped(circ) ==
    GateIf(GateIf(circ, "x", <<2>>, 0, 1), "z", <<2>>, 1, 1)

\* STEP 4's answer as the text before it instructs: an X on Bob's qubit if
\* the measurement of Bell_0 gave 1, followed by a Z if that of q gave 1.
BobCorrections(circ) ==
    GateIf(GateIf(circ, "x", <<2>>, 1, 1), "z", <<2>>, 0, 1)

Step4 ==
    /\ Runs("chsh", "step4")
    /\ ns' = Bind(ns, "full_qc",
                  IF "step4" \in blank THEN ns["tele_qc"]
                  ELSE BobCorrections(ns["tele_qc"]))
    /\ pc' = "bob_measure"
    /\ UNCHANGED <<nb, out, err, blank>>

BobMeasure ==
    /\ Runs("chsh", "bob_measure")
    /\ ns' = Bind(ns, "full_qc",
                  Measure(Barrier(ns["full_qc"]), <<ns["bell"][2]>>, ns["bob"]))
    /\ pc' = "tele_run"
    /\ UNCHANGED <<nb, out, err, blank>>

\* The cell binds angle = 5*pi/7.  The angle is drawn from every direction
\* within MaxAmp, so that every input state |psi> = Ry(theta)|0> within the
\* bound is teleported; <<1, 2>> is the direction nearest to 5*pi/7.
TeleRun ==
    /\ Runs("chsh", "tele_run")
    /\ \E angle \in Angles(MaxAmp) :
          LET aer == Import(ns, {"Sampler"}, "qiskit_aer.primitives")
              measured == Bind(Bind(Bind(aer, "angle", angle),
                                    "sampler", aer["Sampler"]),
                               "qc", MeasureAll(ns["qc"]))
              static == Bind(measured, "job_static",
                             SamplerRun(measured["qc"], angle))
          IN  IF ~Sampleable(measured["qc"])
              THEN ns' = measured /\ err' = "QiskitError" /\ pc' = pc
              ELSE IF ~Sampleable(measured["full_qc"])
              THEN ns' = static /\ err' = "QiskitError" /\ pc' = pc
              ELSE /\ ns' = Bind(static, "job_dynamic",
                                 SamplerRun(measured["full_qc"], angle))
                   /\ err' = NoError
                   /\ pc' = "step5"
    /\ UNCHANGED <<nb, out, blank>>

\* STEP 5's answer: the counts of Bob's bit alone.
Step5 ==
    /\ Runs("chsh", "step5")
    /\ LET imported == Import(ns, {"marginal_counts"}, "qiskit.result")
       IN  ns' = IF "tele_counts" \in blank THEN imported
                 ELSE Bind(imported, "tele_counts",
                           Marginal(ns["job_dynamic"], <<2>>))
    /\ pc' = "tele_plot"
    /\ UNCHANGED <<nb, out, err, blank>>

PlotTeleported ==
    /\ Runs("chsh", "tele_plot")
    /\ ns' = Bind(ns, "legend", <<"Original State", "Teleported State">>)
    /\ pc' = "versions"
    /\ UNCHANGED <<nb, out, err, blank>>

VersionsCHSH ==
    /\ Runs("chsh", "versions")
    /\ ns' = Import(ns, {"qiskit"}, "module")
    /\ pc' = "done"
    /\ UNCHANGED <<nb, out, err, blank>>

\* ------------------------------------------- challenge_circuit_depth.ipynb
\* simulator.run(circuit).result(): the distribution the backend samples
\* from, and get_counts(): the outcomes of MaxShots shots drawn from it, an
\* outcome that never came up having no entry.
AerCounts(d, shots) ==
    {Clean(c) : c \in {f \in [DOMAIN d -> 0..shots] : SumFun(f) = shots}}

AerRun(env, circ) ==
    {Bind(Bind(Bind(Bind(env, "simulator", env["AerSimulator"]),
                    "job", SamplerRun(circ, Unbound)),
               "result", SamplerRun(circ, Unbound)), "counts", c) :
        c \in AerCounts(SamplerRun(circ, Unbound), MaxShots)}

ImportsDepth ==
    /\ Runs("depth", "imports")
    /\ ns' = Import(Import(Import(ns,
                {"QuantumCircuit", "transpile"}, "qiskit"),
                {"plot_histogram"}, "qiskit.visualization"),
                {"np"}, "module")
    /\ pc' = "intro"
    /\ UNCHANGED <<nb, out, err, blank>>

DepthIntro ==
    /\ Runs("depth", "intro")
    /\ ns' = Bind(ns, "qc", Gate(QuantumCircuit(1, 0), "x", <<0>>))
    /\ pc' = "bell"
    /\ UNCHANGED <<nb, out, err, blank>>

BellCircuit ==
    Measure(Gate(Gate(QuantumCircuit(2, 2), "h", <<0>>), "cx", <<0, 1>>),
            <<0, 1>>, <<0, 1>>)

BellBuild ==
    /\ Runs("depth", "bell")
    /\ ns' = Bind(ns, "bell", BellCircuit)
    /\ pc' = "bell_run"
    /\ UNCHANGED <<nb, out, err, blank>>

BellRun ==
    /\ Runs("depth", "bell_run")
    /\ ns' \in AerRun(Import(ns, {"AerSimulator"}, "qiskit_aer"), ns["bell"])
    /\ pc' = "part2"
    /\ UNCHANGED <<nb, out, err, blank>>

\* PART 2's cell, which holds a comment.
Part2 ==
    /\ Runs("depth", "part2")
    /\ pc' = "ghz"
    /\ UNCHANGED <<nb, ns, out, err, blank>>

\* Mutant of GhzCircuit: the second CNOT forgotten.
GhzCircuitShort ==
    Measure(Gate(Gate(QuantumCircuit(3, 3), "h", <<0>>), "cx", <<0, 1>>),
            <<0, 1, 2>>, <<0, 1, 2>>)

GhzCircuit ==
    Measure(Gate(Gate(Gate(QuantumCircuit(3, 3), "h", <<0>>), "cx", <<0, 1>>),
                 "cx", <<0, 2>>),
            <<0, 1, 2>>, <<0, 1, 2>>)

\* Prints size() and num_nonlocal_gates().
GhzBuild ==
    /\ Runs("depth", "ghz")
    /\ ns' = Bind(ns, "ghz_qc", GhzCircuit)
    /\ out' = out \o <<Size(GhzCircuit), NumNonlocalGates(GhzCircuit)>>
    /\ pc' = "ghz_run"
    /\ UNCHANGED <<nb, err, blank>>

GhzRun ==
    /\ Runs("depth", "ghz_run")
    /\ ns' \in AerRun(ns, ns["ghz_qc"])
    /\ pc' = "part3"
    /\ UNCHANGED <<nb, out, err, blank>>

\* PART 3's cell, which holds a comment.
Part3 ==
    /\ Runs("depth", "part3")
    /\ pc' = "depth1"
    /\ UNCHANGED <<nb, ns, out, err, blank>>

DepthCircuit1 ==
    Gate(Gate(Gate(Gate(Gate(Gate(QuantumCircuit(4, 0),
        "h", <<0>>), "s", <<0>>), "s", <<0>>), "s", <<0>>),
        "cx", <<0, 1>>), "cx", <<1, 3>>)

\* Prints depth().
DepthExample1 ==
    /\ Runs("depth", "depth1")
    /\ ns' = Bind(ns, "qc", DepthCircuit1)
    /\ out' = Append(out, Depth(DepthCircuit1))
    /\ pc' = "depth2"
    /\ UNCHANGED <<nb, err, blank>>

DepthCircuit2 ==
    Gate(Gate(Gate(Gate(Gate(Gate(QuantumCircuit(4, 0),
        "h", <<0>>), "s", <<1>>), "cx", <<0, 1>>), "s", <<2>>), "s", <<3>>),
        "cx", <<2, 3>>)

DepthExample2 ==
    /\ Runs("depth", "depth2")
    /\ ns' = Bind(ns, "qc2", DepthCircuit2)
    /\ out' = Append(out, Depth(DepthCircuit2))
    /\ pc' = "part4"
    /\ UNCHANGED <<nb, err, blank>>

\* PART 4's answer: a GHZ circuit on n qubits in which every qubit that is
\* already entangled becomes the control of a CNOT onto a fresh qubit, so the
\* number of entangled qubits doubles with every round.
RECURSIVE GhzRound(_, _, _)
GhzRound(circ, have, i) ==
    IF i >= have \/ have + i >= circ.nq THEN circ
    ELSE GhzRound(Gate(circ, "cx", <<i, have + i>>), have, i + 1)

RECURSIVE GhzRounds(_, _)
GhzRounds(circ, have) ==
    IF have >= circ.nq THEN circ
    ELSE GhzRounds(GhzRound(circ, have, 0), 2 * have)

GhzNew(n) ==
    LET circ == QuantumCircuit(n, n)
    IN  Measure(GhzRounds(Gate(circ, "h", <<0>>), 1),
                AllQubits(circ), AllQubits(circ))

Part4 ==
    /\ Runs("depth", "part4")
    /\ IF "ghz_new_qc" \in blank THEN ns' = ns
       ELSE \E n \in 2..NumGhzQubits : ns' = Bind(ns, "ghz_new_qc", GhzNew(n))
    /\ pc' = "ghz_new_run"
    /\ UNCHANGED <<nb, out, err, blank>>

GhzNewRun ==
    /\ Runs("depth", "ghz_new_run")
    /\ ns' \in AerRun(ns, ns["ghz_new_qc"])
    /\ pc' = "versions"
    /\ UNCHANGED <<nb, out, err, blank>>

VersionsDepth ==
    /\ Runs("depth", "versions")
    /\ ns' = Import(ns, {"qiskit"}, "module")
    /\ pc' = "done"
    /\ UNCHANGED <<nb, out, err, blank>>

\* -------------------------------------------------- errors and answers
\* What a cell has bound when it stops at its first read of a name an
\* answer was to bind.
Before(cell) ==
    CASE cell = "chsh_run" -> Bind(ns, "estimator", ns["Estimator"])
      [] cell = "tele_plot" ->
           Bind(ns, "legend", <<"Original State", "Teleported State">>)
      [] cell = "ghz_new_run" -> Bind(ns, "simulator", ns["AerSimulator"])
      [] OTHER -> ns

\* A cell reads a name that is not bound: NameError, and the execution
\* stops at that cell.
NameError ==
    /\ err = NoError /\ pc # "done"
    /\ FirstUnbound(Reads(pc), ns) # NoError
    /\ err' = FirstUnbound(Reads(pc), ns)
    /\ ns' = Before(pc)
    /\ UNCHANGED <<nb, pc, out, blank>>

\* The answer that was to bind the name is filled in, and the execution
\* resumes at the answer's cell.
FillIn ==
    /\ err \in blank
    /\ blank' = blank \ {err}
    /\ pc' = AnswerCell(err)
    /\ err' = NoError
    /\ UNCHANGED <<nb, ns, out>>

\* ------------------------------------------------------------ specification
vars == <<nb, pc, ns, out, err, blank>>

\* A fresh kernel at the first code cell of either notebook.
Init ==
    /\ nb \in {"chsh", "depth"}
    /\ pc = "imports"
    /\ ns = <<>>
    /\ out = <<>>
    /\ err = NoError
    /\ blank \in SUBSET Answers(nb)

Next ==
    \/ ImportsCHSH \/ CreateExcited \/ CreatePlus \/ SampleZ
    \/ ShowExcited \/ ShowPlus \/ PlotZ \/ Step1 \/ SampleX \/ PlotX
    \/ EstimatorBuild \/ EstimatorWarmup \/ ShowEstimate \/ PrintEstimates
    \/ Step2 \/ CreateCHSH \/ Challenge3 \/ RunCHSH
    \/ ImportRegisters \/ TeleCreate \/ TeleRegisters \/ TeleBell
    \/ TeleAlice \/ TeleMeasure \/ Step4 \/ BobMeasure \/ TeleRun
    \/ Step5 \/ PlotTeleported \/ VersionsCHSH
    \/ ImportsDepth \/ DepthIntro \/ BellBuild \/ BellRun \/ Part2
    \/ GhzBuild \/ GhzRun \/ Part3 \/ DepthExample1 \/ DepthExample2
    \/ Part4 \/ GhzNewRun \/ VersionsDepth
    \/ NameError \/ FillIn

Spec == Init /\ [][Next]_vars

\* ------------------------------------ circuits of single-qubit gates only
\* The text after the two depth examples speaks of every circuit that has
\* only single-qubit gates: such a circuit is built gate by gate in a
\* scratch session, its depth printed after each gate.
InitGates ==
    /\ nb = "gates"
    /\ pc = "build"
    /\ \E n \in 1..MaxQubits : ns = Bind(<<>>, "qc", QuantumCircuit(n, 0))
    /\ out = <<>>
    /\ err = NoError
    /\ blank = {}

AddGate ==
    /\ nb = "gates" /\ pc = "build"
    /\ Len(ns["qc"].ops) < MaxGates
    /\ \E g \in {"h", "s"}, q \in 0..(ns["qc"].nq - 1) :
          LET grown == Gate(ns["qc"], g, <<q>>)
          IN  /\ ns' = Bind(ns, "qc", grown)
              /\ out' = <<Depth(grown)>>
    /\ UNCHANGED <<nb, pc, err, blank>>

SpecGates == InitGates /\ [][AddGate]_vars

\* ---------------------------------------------------------- Pauli operators
\* A Pauli operator with its phase: i^phase times the Pauli string label.
PauliOp(label) == [phase |-> 0, label |-> label]

\* SparsePauliOp([label], coeffs=[i^phase]).
PauliOpCoeffs(label, phase) == [phase |-> phase, label |-> label]

\* The matrix product x.y of two Pauli letters.
LetterDot(x, y) ==
    CASE x = "I" -> [phase |-> 0, letter |-> y]
      [] y = "I" -> [phase |-> 0, letter |-> x]
      [] x = y -> [phase |-> 0, letter |-> "I"]
      [] x = "X" /\ y = "Y" -> [phase |-> 1, letter |-> "Z"]
      [] x = "Y" /\ y = "X" -> [phase |-> 3, letter |-> "Z"]
      [] x = "Y" /\ y = "Z" -> [phase |-> 1, letter |-> "X"]
      [] x = "Z" /\ y = "Y" -> [phase |-> 3, letter |-> "X"]
      [] x = "Z" /\ y = "X" -> [phase |-> 1, letter |-> "Y"]
      [] x = "X" /\ y = "Z" -> [phase |-> 3, letter |-> "Y"]

RECURSIVE SumSeq(_)
SumSeq(s) == IF s = <<>> THEN 0 ELSE Head(s) + SumSeq(Tail(s))

\* a.dot(b): the matrix product a.b, letter by letter.
Dot(a, b) ==
    LET prods == [i \in DOMAIN a.label |-> LetterDot(a.label[i], b.label[i])]
    IN  [phase |-> (a.phase + b.phase
                      + SumSeq([i \in DOMAIN prods |-> prods[i].phase])) % 4,
         label |-> [i \in DOMAIN prods |-> prods[i].letter]]

\* a.compose(b): a acts first, then b.
Compose(a, b) == Dot(b, a)

\* a.tensor(b): b on the low qubits, a on the qubits above them.
Tensor(a, b) ==
    [phase |-> (a.phase + b.phase) % 4, label |-> a.label \o b.label]

\* The coefficient i^phase as <<real part, imaginary part>>.
Coeff(op) ==
    CASE op.phase = 0 -> <<1, 0>> [] op.phase = 1 -> <<0, 1>>
      [] op.phase = 2 -> <<-1, 0>> [] op.phase = 3 -> <<0, -1>>

\* The matrices, acting on a state with complex amplitudes [re, im].
Neg(psi) == [k \in DOMAIN psi |-> -psi[k]]
ITimes(v) == [re |-> Neg(v.im), im |-> v.re]

RECURSIVE IPower(_, _)
IPower(v, n) == IF n = 0 THEN v ELSE IPower(ITimes(v), n - 1)

ActX(v, q) == [re |-> ApplyX(v.re, q), im |-> ApplyX(v.im, q)]
ActZ(v, q) == [re |-> ApplyZ(v.re, q), im |-> ApplyZ(v.im, q)]
\* Y = [[0, -i], [i, 0]] = i.X.Z
ActY(v, q) == ITimes(ActX(ActZ(v, q), q))

ActLetter(v, letter, q) ==
    CASE letter = "X" -> ActX(v, q)
      [] letter = "Y" -> ActY(v, q)
      [] letter = "Z" -> ActZ(v, q)
      [] OTHER -> v

RECURSIVE ActLabel(_, _, _)
ActLabel(v, label, i) ==
    IF i > Len(label) THEN v
    ELSE ActLabel(ActLetter(v, label[i], LabelQubit(label, i)), label, i + 1)

ActOp(v, op) == IPower(ActLabel(v, op.label, 1), op.phase)

\* The four statements of the text that create ZX, each followed by the
\* operator acting on a two-qubit state psi.
InitPauli ==
    /\ nb = "pauli"
    /\ pc = "observable"
    /\ \E f \in [0..3 -> (-MaxTestAmp)..MaxTestAmp], turned \in BOOLEAN :
          /\ Clean(f) # <<>>
          /\ ns = Bind(<<>>, "psi",
                       IF turned THEN [re |-> <<>>, im |-> Clean(f)]
                       ELSE [re |-> Clean(f), im |-> <<>>])
    /\ out = <<>>
    /\ err = NoError
    /\ blank = {}

CreateZX ==
    /\ nb = "pauli" /\ pc = "observable"
    /\ \E way \in {"string", "list", "tensor", "compose"} :
          LET ZX == CASE way = "string" -> PauliOp(<<"Z", "X">>)
                      [] way = "list" -> PauliOpCoeffs(<<"Z", "X">>, 0)
                      [] way = "tensor" -> Tensor(PauliOp(<<"Z">>), PauliOp(<<"X">>))
                      [] way = "compose" ->
                           Compose(PauliOp(<<"X", "Z">>), PauliOp(<<"Y", "Y">>))
          IN  /\ ns' = Bind(Bind(ns, "ZX", ZX), "image", ActOp(ns["psi"], ZX))
              /\ pc' = way
    /\ UNCHANGED <<nb, out, err, blank>>

SpecPauli == InitPauli /\ [][CreateZX]_vars

\* ------------------------------------------------- sequential GHZ circuits
\* The steps the entangling part of a circuit takes: the depth of its CNOTs.
OnlyGates(circ, op) ==
    [circ EXCEPT !.ops = SelectSeq(@, LAMBDA ins : ins.op = op)]

EntanglingDepth(circ) == Depth(OnlyGates(circ, "cx"))

\* PART 3's answer: ghz_qc's construction on n qubits, one CNOT after the
\* other.  nb = "star" entangles every qubit with qubit 0, as ghz_qc does;
\* nb = "chain" entangles every qubit with the one before it.
InitGhz ==
    /\ nb \in {"star", "chain"}
    /\ pc = "entangle"
    /\ \E n \in 2..NumGhzQubits :
          ns = Bind(<<>>, "ghz_qc", Gate(QuantumCircuit(n, n), "h", <<0>>))
    /\ out = <<>>
    /\ err = NoError
    /\ blank = {}

Entangle ==
    /\ nb \in {"star", "chain"} /\ pc = "entangle"
    /\ LET circ == ns["ghz_qc"]
           k == NumNonlocalGates(circ) + 1
       IN  /\ k < circ.nq
           /\ ns' = Bind(ns, "ghz_qc",
                         Gate(circ, "cx", <<IF nb = "star" THEN 0 ELSE k - 1, k>>))
    /\ UNCHANGED <<nb, pc, out, err, blank>>

\* Prints the CNOT steps, depth() and size() of the finished circuit.
FinishGhz ==
    /\ nb \in {"star", "chain"} /\ pc = "entangle"
    /\ LET circ == ns["ghz_qc"]
           done == Measure(circ, AllQubits(circ), AllQubits(circ))
       IN  /\ NumNonlocalGates(circ) = circ.nq - 1
           /\ ns' = Bind(ns, "ghz_qc", done)
           /\ out' = <<EntanglingDepth(done), Depth(done), Size(done)>>
    /\ pc' = "done"
    /\ UNCHANGED <<nb, err, blank>>

SpecGhz == InitGhz /\ [][Entangle \/ FinishGhz]_vars

\* ------------------------------------ circuits of one- and two-qubit gates
\* The same text speaks of circuits in which every gate depends on the same
\* qubit: here a gate is a Hadamard or a CNOT on any pair of qubits.
InitMixed ==
    /\ nb = "mixed"
    /\ pc = "build"
    /\ \E n \in 1..MaxQubits : ns = Bind(<<>>, "qc", QuantumCircuit(n, 0))
    /\ out = <<>>
    /\ err = NoError
    /\ blank = {}

AddMixed ==
    /\ nb = "mixed" /\ pc = "build"
    /\ Len(ns["qc"].ops) < MaxMixedGates
    /\ LET qubits == 0..(ns["qc"].nq - 1)
           gates == {Instr("h", <<q>>) : q \in qubits}
                    \cup {Instr("cx", <<c, t>>) : c \in qubits, t \in qubits}
       IN  \E g \in {i \in gates : Len(i.qs) = 1 \/ i.qs[1] # i.qs[2]} :
              LET grown == Gate(ns["qc"], g.op, g.qs)
              IN  /\ ns' = Bind(ns, "qc", grown)
                  /\ out' = <<Depth(grown)>>
    /\ UNCHANGED <<nb, pc, err, blank>>

SpecMixed == InitMixed /\ [][AddMixed]_vars

\* -------------------------------------------- local hidden variables (LHV)
\* The argument of the CHSH section: in every trial each of A, a, B, b has
\* a definite outcome +1 or -1, and the CHSH quantity of the trial is added
\* to a running sum, whose mean over the trials is the expectation value.
InitLHV ==
    /\ nb = "lhv"
    /\ pc = "trial"
    /\ ns = [n |-> 0, sum |-> 0]
    /\ out = <<>>
    /\ err = NoError
    /\ blank = {}

Trial ==
    /\ nb = "lhv" /\ pc = "trial"
    /\ ns.n < MaxTrials
    /\ \E A \in {1, -1}, a \in {1, -1}, B \in {1, -1}, b \in {1, -1} :
          ns' = [A |-> A, a |-> a, B |-> B, b |-> b,
                 chsh |-> CHSHValue(A, a, B, b),
                 n |-> ns.n + 1,
                 sum |-> ns.sum + CHSHValue(A, a, B, b)]
    /\ UNCHANGED <<nb, pc, out, err, blank>>

SpecLHV == InitLHV /\ [][Trial]_vars

\* ------------------------------------------------------------------ claims
\* Weight of outcome o in distribution d.
W(d, o) == IF o \in DOMAIN d THEN d[o] ELSE 0

\* Outcome o has probability 1/2 in d.
Half(d, o) == 2 * W(d, o) = Total(d)

Has(name) == name \in DOMAIN ns

\* C1 (teleportation).  With Bob's corrections in place, for every input
\* state and for each of Alice's four outcomes (each of which occurs), the
\* probability that Bob's bit reads 1 given that outcome is the probability
\* that q reads 1 right after Ry(theta); so is the probability of Bob's bit
\* in the marginalised counts.
TeleRan ==
    /\ nb = "chsh" /\ pc \in {"step5", "tele_plot", "versions", "done"}
    /\ "step4" \notin blank

C1_Teleportation ==
    TeleRan =>
        LET d == ns["job_dynamic"]
            s == ns["job_static"]
        IN  /\ \A al \in 0..3 :
                  /\ W(d, al) + W(d, al + 4) > 0
                  /\ W(d, al + 4) * Total(s) = W(s, 1) * (W(d, al) + W(d, al + 4))
                  /\ W(d, al) * Total(s) = W(s, 0) * (W(d, al) + W(d, al + 4))
            /\ Has("tele_counts") =>
                  \A m \in 0..1 :
                     W(ns["tele_counts"], m) * Total(s)
                        = W(s, m) * Total(ns["tele_counts"])

\* A run that teleported a state with both outcomes possible and unequal:
\* theta with tan(theta/2) = 2, the 20% / 80% state of the notebook.
C1_Witness ==
    /\ nb = "chsh" /\ pc = "done"
    /\ ns["angle"] = <<1, 2>>
    /\ W(ns["tele_counts"], 0) > 0
    /\ W(ns["tele_counts"], 1) = 4 * W(ns["tele_counts"], 0)
    /\ DOMAIN ns["job_dynamic"] = 0..7

\* C2 (classical CHSH bound).  For outcomes A, a, B, b in {+1, -1}: B - b
\* and B + b are 0 or +-2, A(B-b) + a(B+b) equals AB - Ab + aB + ab and is
\* +2 or -2, so its absolute value, and that of its mean over the trials,
\* never exceeds 2.
C2_ClassicalBound ==
    (nb = "lhv" /\ ns.n > 0) =>
        /\ (ns.B - ns.b) \in {0, 2, -2}
        /\ (ns.B + ns.b) \in {0, 2, -2}
        /\ ns.chsh = ns.A * ns.B - ns.A * ns.b + ns.a * ns.B + ns.a * ns.b
        /\ ns.chsh \in {2, -2}
        /\ Abs(ns.chsh) <= 2
        /\ Abs(ns.sum) <= 2 * ns.n

C2_Witness ==
    /\ nb = "lhv" /\ ns.n = MaxTrials
    /\ ns.chsh = -2 /\ ns.B # ns.b
    /\ ns.sum = 2 * ns.n - 4

\* C3 (CHSH violation).  An expectation value [num, den] lies outside the
\* classical bound when |num| > 2 den.
Violates(e) == Abs(e.num) > 2 * e.den

SweptFinest == nb = "chsh" /\ Has("exps") /\ ns["angles"] = Sweep(MaxAmp)

ViolatingPoints == {i \in DOMAIN ns["exps"] : Violates(ns["exps"][i])}

\* A and B are the same Pauli letter (and so are a and b): the first term
\* of the observable, AB, is ZZ or XX.
Aligned(obsv) == obsv[1].label \in {<<"Z", "Z">>, <<"X", "X">>}

\* C3 as stated: whichever of {IX, IZ} is A and whichever of {XI, ZI} is B,
\* at least three angles of the sweep violate the bound.
C3_AnyAssignment == SweptFinest => Cardinality(ViolatingPoints) >= 3

\* C3 as amended: when A and B are the same Pauli letter (A = IZ, B = ZI or
\* A = IX, B = XI), at least three angles of the sweep have |<CHSH>| > 2.
C3_AlignedViolation ==
    (SweptFinest /\ Aligned(ns["obsv"])) => Cardinality(ViolatingPoints) >= 3

C3_Witness ==
    /\ SweptFinest /\ Aligned(ns["obsv"])
    /\ Cardinality(ViolatingPoints) >= 3
    /\ \E i \in ViolatingPoints : ns["exps"][i].num > 0
    /\ \E i \in ViolatingPoints : ns["exps"][i].num < 0

\* C4 (Bell circuit).  The shots of the Bell circuit only ever read 00 or
\* 11, and the two outcomes have probability 1/2 each.
BellRan == nb = "depth" /\ pc \in {"part2", "ghz", "ghz_run"}

C4_BellOutcomes ==
    BellRan =>
        /\ DOMAIN ns["counts"] \subseteq {0, 3}
        /\ DOMAIN ns["result"] = {0, 3}
        /\ Half(ns["result"], 0) /\ Half(ns["result"], 3)

C4_Witness ==
    /\ BellRan
    /\ DOMAIN ns["counts"] = {0, 3}
    /\ SumFun(ns["counts"]) = MaxShots

\* C5 (GHZ circuit).  The shots of the three-qubit GHZ circuit only ever
\* read 000 or 111, with probability 1/2 each.
GhzRan ==
    nb = "depth" /\ pc \in {"part3", "depth1", "depth2", "part4", "ghz_new_run"}

C5_GhzOutcomes ==
    GhzRan =>
        /\ DOMAIN ns["counts"] \subseteq {0, 7}
        /\ DOMAIN ns["result"] = {0, 7}
        /\ Half(ns["result"], 0) /\ Half(ns["result"], 7)

C5_Witness ==
    /\ GhzRan
    /\ DOMAIN ns["counts"] = {0, 7}
    /\ SumFun(ns["counts"]) = MaxShots

\* C6 (Z-basis sampling).  Measured in the Z basis, the excited state reads
\* 1 with certainty and the plus state reads 0 and 1 half of the time each.
SampledZ ==
    nb = "chsh" /\ pc \in {"show_1", "show_plus", "plot_z", "step1", "sample_x"}

C6_ZBasis ==
    SampledZ =>
        /\ DOMAIN ns["job_1"] = {1}
        /\ DOMAIN ns["job_plus"] = {0, 1}
        /\ Half(ns["job_plus"], 0) /\ Half(ns["job_plus"], 1)

C6_Witness ==
    /\ SampledZ /\ pc = "step1"
    /\ HasMeasure(ns["qc_1"]) /\ HasMeasure(ns["qc_plus"])
    /\ W(ns["job_1"], 1) > 0 /\ W(ns["job_plus"], 0) > 0

\* C7 (X-basis sampling).  After STEP 1 the jobs are those of the rotated
\* circuits.
SampledX ==
    /\ nb = "chsh" /\ Has("job_1")
    /\ pc \notin {"imports", "excited", "plus", "sample_z", "show_1", "show_plus",
                   "plot_z", "step1", "sample_x"}
    /\ "step1" \notin blank

ExcitedSplits ==
    /\ DOMAIN ns["job_1"] = {0, 1}
    /\ Half(ns["job_1"], 0) /\ Half(ns["job_1"], 1)

IsValue(e, v) == e.den > 0 /\ e.num = v * e.den

Estimated == nb = "chsh" /\ Has("job2_1") /\ Has("job2_plus")

C8_Expectations ==
    Estimated =>
        /\ IsValue(ns["job2_1"][1], -1)
        /\ IsValue(ns["job2_1"][2], 0)
        /\ IsValue(ns["job2_plus"][1], 0)
        /\ IsValue(ns["job2_plus"][2], 1)

C8_Witness ==
    /\ Estimated /\ pc = "show_est"
    /\ Len(ns["job2_1"]) = 2 /\ Len(ns["job2_plus"]) = 2
    /\ ns["job2_1"][1].num < 0 /\ ns["job2_plus"][2].num > 0

\* C9 (depth examples).  The two example circuits have the same number of
\* gates; every gate of the first shares a qubit with the gate before it,
\* its printed depth equals its number of gates and is strictly greater
\* than the printed depth of the second.
Chained(circ) ==
    \A i \in 2..Len(circ.ops) :
       {circ.ops[i].qs[k] : k \in DOMAIN circ.ops[i].qs}
          \cap {circ.ops[i - 1].qs[k] : k \in DOMAIN circ.ops[i - 1].qs} # {}

ExamplesDone == nb = "depth" /\ pc = "done"

C9_DepthExamples ==
    ExamplesDone =>
        /\ Size(ns["qc"]) = Size(ns["qc2"])
        /\ Chained(ns["qc"])
        /\ out[3] = Size(ns["qc"])
        /\ out[3] > out[4]

C9_Witness ==
    /\ ExamplesDone
    /\ Len(out) = 4 /\ out[3] = 6 /\ out[4] = 2
    /\ Size(ns["qc"]) = 6

\* C10 (depth lower bound).  For a circuit of single-qubit gates on n
\* qubits, n times the depth is at least the number of gates, with
\* equality when every qubit carries the same number of gates.
GatesOn(circ, q) == Cardinality({i \in DOMAIN circ.ops : circ.ops[i].qs = <<q>>})

EvenlySpread(circ) ==
    \A q \in 0..(circ.nq - 1) : GatesOn(circ, q) = GatesOn(circ, 0)

C10_DepthLowerBound ==
    (nb = "gates" /\ out # <<>>) =>
        /\ out[1] * ns["qc"].nq >= Size(ns["qc"])
        /\ EvenlySpread(ns["qc"]) => out[1] * ns["qc"].nq = Size(ns["qc"])

C10_Witness ==
    /\ nb = "gates" /\ out # <<>>
    /\ ns["qc"].nq = 2 /\ Size(ns["qc"]) = 4
    /\ EvenlySpread(ns["qc"])
    /\ out[1] = 2

\* C11 (depth of a serial circuit).  When every gate of a circuit acts on
\* one common qubit, the printed depth is the number of gates.
QubitsOf(ins) == {ins.qs[k] : k \in DOMAIN ins.qs}

Serial(circ) ==
    \E q \in 0..(circ.nq - 1) : \A i \in DOMAIN circ.ops : q \in QubitsOf(circ.ops[i])

C11_SerialDepth ==
    (nb = "mixed" /\ out # <<>> /\ Serial(ns["qc"])) => out[1] = Size(ns["qc"])

\* Three gates through qubit 0, two of them CNOTs with different partners.
C11_Witness ==
    /\ nb = "mixed" /\ out # <<>>
    /\ Serial(ns["qc"])
    /\ Size(ns["qc"]) = MaxMixedGates
    /\ NumNonlocalGates(ns["qc"]) >= 2
    /\ \E i, j \in DOMAIN ns["qc"].ops :
          /\ Len(ns["qc"].ops[i].qs) = 2 /\ Len(ns["qc"].ops[j].qs) = 2
          /\ QubitsOf(ns["qc"].ops[i]) # QubitsOf(ns["qc"].ops[j])
    /\ out[1] = Size(ns["qc"])

\* C12 (reduced-depth GHZ).  The 16-qubit circuit built in PART 4 has its
\* CNOTs in 4 layers and a depth of 6 with the Hadamard and the measurements,
\* and its run yields only the all-zeros and the all-ones outcome.
GhzNewRan ==
    /\ nb = "depth" /\ pc = "done"
    /\ ns["ghz_new_qc"].nq = NumGhzQubits

AllOnes(n) == Pow2(n) - 1

C12_ReducedDepthGhz ==
    GhzNewRan =>
        /\ EntanglingDepth(ns["ghz_new_qc"]) = 4
        /\ Depth(ns["ghz_new_qc"]) = 6
        /\ DOMAIN ns["result"] = {0, AllOnes(NumGhzQubits)}
        /\ Half(ns["result"], 0) /\ Half(ns["result"], AllOnes(NumGhzQubits))
        /\ DOMAIN ns["counts"] \subseteq {0, AllOnes(NumGhzQubits)}

C12_Witness ==
    /\ GhzNewRan
    /\ NumNonlocalGates(ns["ghz_new_qc"]) = NumGhzQubits - 1
    /\ Depth(ns["ghz_new_qc"]) = 6
    /\ DOMAIN ns["counts"] = {0, AllOnes(NumGhzQubits)}

\* C13 (sequential GHZ cost), as stated: the sequential 16-qubit GHZ circuit
\* takes 31 CNOT steps where the reduced-depth circuit takes 4.
SequentialDone ==
    /\ nb \in {"star", "chain"} /\ pc = "done"
    /\ ns["ghz_qc"].nq = NumGhzQubits

CreatedZX == nb = "pauli" /\ pc # "observable"

C14_PauliIdentities ==
    CreatedZX =>
        /\ ns["ZX"].label = <<"Z", "X">>
        /\ Coeff(ns["ZX"]) = <<1, 0>>
        /\ ns["image"] = ActZ(ActX(ns["psi"], 0), 1)
        /\ ns["image"] = ActOp(ActOp(ns["psi"], PauliOp(<<"X", "Z">>)),
                               PauliOp(<<"Y", "Y">>))

\* The composed operator on a state that tells X on qubit 0 from X on
\* qubit 1 and Z on qubit 1 from Z on qubit 0.
C14_Witness ==
    /\ CreatedZX /\ pc = "compose"
    /\ ns["psi"] = [re |-> (0 :> 1) @@ (2 :> 1), im |-> <<>>]
    /\ ns["image"] = [re |-> (1 :> 1) @@ (3 :> -1), im |-> <<>>]

\* C15 (sampler precondition).  The sampler never refuses a circuit: when a
\* cell has handed qc_1 and qc_plus, or qc and full_qc, to sampler.run, each
\* of them has every classical bit written by a measurement and measures
\* every qubit whose result is read.
MeasuresQubits(circ, qubits) ==
    \A q \in qubits :
       \E i \in DOMAIN circ.ops :
          circ.ops[i].op = "measure" /\ circ.ops[i].qs = <<q>>

JustSampled == nb = "chsh" /\ pc \in {"show_1", "plot_x"}

JustTeleported == nb = "chsh" /\ pc = "step5"

C15_SamplerPrecondition ==
    /\ err # "QiskitError"
    /\ JustSampled =>
          \A name \in {"qc_1", "qc_plus"} :
             Sampleable(ns[name]) /\ MeasuresQubits(ns[name], {0})
    /\ JustTeleported =>
          /\ Sampleable(ns["qc"]) /\ MeasuresQubits(ns["qc"], {0})
          /\ Sampleable(ns["full_qc"]) /\ MeasuresQubits(ns["full_qc"], {0, 1, 2})

\* The teleportation run of the notebook with every answer filled in, the
\* dynamic circuit holding conditioned gates between its measurements.
C15_Witness ==
    /\ JustTeleported /\ blank = {}
    /\ Has("job_static") /\ Has("job_dynamic")
    /\ \E i \in DOMAIN ns["full_qc"].ops : ns["full_qc"].ops[i].cond # <<>>
    /\ Sampleable(ns["full_qc"])

\* C16 (names used before definition).  An execution only ever stops on a
\* NameError for a name left to an answer that is still blank, at the cell
\* that first reads the name and with the name unbound; so it never stops
\* once the answers are filled in.  The step that raises the error changes
\* no circuit bound before it.
AnswerNames == {"obsv", "angles", "tele_counts", "ghz_new_qc"}

FirstUse(name) ==
    CASE name = "angles" -> "challenge3"
      [] name = "obsv" -> "chsh_run"
      [] name = "tele_counts" -> "tele_plot"
      [] name = "ghz_new_qc" -> "ghz_new_run"

CircuitNames ==
    {"qc_1", "qc_plus", "qc2_1", "qc2_plus", "qc", "tele_qc", "full_qc",
     "bell", "ghz_qc", "qc2", "ghz_new_qc"}

StoppedOnAnswer ==
    err # NoError =>
        /\ err \in AnswerNames \cap blank
        /\ err \in Answers(nb)
        /\ err \notin DOMAIN ns
        /\ pc = FirstUse(err)

Raises == err = NoError /\ err' # NoError

CircuitsKept ==
    \A name \in CircuitNames \cap DOMAIN ns :
       name \in DOMAIN ns' /\ ns'[name] = ns[name]

C16_NamesBound == [](StoppedOnAnswer) /\ [][Raises => CircuitsKept]_vars

\* The CHSH notebook stopped at its last plot, where the unmodified
\* notebook stops for the third time (after angles and obsv): STEP 1,
\* STEP 4 and tele_counts are blank, and the cell has bound legend before
\* it read tele_counts.
C16_Witness ==
    /\ nb = "chsh" /\ err = "tele_counts" /\ pc = "tele_plot"
    /\ blank = {"step1", "step4", "tele_counts"}
    /\ Has("exps") /\ Has("full_qc")
    /\ ns["legend"] = <<"Original State", "Teleported State">>

=============================================================================
